---- MODULE Spec2Model ----
(***************************************************************************)
(* Model of src/main.py: the POST /pipelines/parse handler parse_pipeline. *)
(* One behaviour is one request: the adjacency dict is built from the      *)
(* node and edge lists, the recursive DFS is_cyclic runs from every        *)
(* unvisited key, and the response envelope is produced.  The recursion of *)
(* is_cyclic is modelled by an explicit sequence of call frames, one step  *)
(* per neighbor examined, per call and per return.  The same code is also  *)
(* given as the recursive operator parse_pipeline, so that the outcome of  *)
(* a second request (a permuted or a filtered edge list) can be compared   *)
(* with the outcome of the request being run.                              *)
(*                                                                         *)
(* Left out: Node.type / Node.data (never read by the handler), the        *)
(* response_time_ms field (wall clock), CORS configuration, and the        *)
(* interpreter's recursion limit (not set in the source; the bounds below  *)
(* stay far under it).                                                     *)
(***************************************************************************)
EXTENDS Naturals, Sequences, FiniteSets

\* Node ids a request may mention (Node.id, Edge.source, Edge.target: str).
Ids == {"A", "B", "X"}

\* Longest node list and longest edge list of a request.
MaxNodes == 3
MaxEdges == 3

VARIABLES
    nodes,      \* pipeline.nodes, as the list of Node.id
    edges,      \* pipeline.edges, as a list of [source, target]
    pc,         \* position in the handler
    graph,      \* the adjacency dict: keys in insertion order, adj the lists
    visited,    \* the set visited
    rec_stack,  \* the set rec_stack
    node_idx,   \* position of `for node_id in graph`
    frames,     \* active is_cyclic calls, outermost first: [v, i]
    is_dag,     \* the local is_dag
    response,   \* the returned envelope
    steps       \* history: the number of steps the handler has taken

vars == <<nodes, edges, pc, graph, visited, rec_stack, node_idx, frames,
          is_dag, response, steps>>

----------------------------------------------------------------------------
\* Helpers

Range(s) == {s[i] : i \in 1..Len(s)}

BoundedSeq(S, n) == UNION {[1..k -> S] : k \in 0..n}

Edge == [source : Ids, target : Ids]

\* A dict keeps each key once, at the position of its first insertion.
RECURSIVE KeyOrder(_)
KeyOrder(ns) ==
    IF ns = <<>> THEN <<>>
    ELSE LET front == KeyOrder(SubSeq(ns, 1, Len(ns) - 1))
             last  == ns[Len(ns)]
         IN  IF last \in Range(front) THEN front ELSE Append(front, last)

\* The handler only hashes and compares ids, so a request and its image
\* under a renaming of the ids run alike (the names show only in the
\* KeyError message).  Of the node lists that differ by a renaming, the one
\* whose ids first occur in the order A, B, X is taken; the edge lists range
\* over all ids, so every shape of request is still present.
FirstUse == <<"A", "B", "X">>
NodeLists ==
    {ns \in BoundedSeq(Ids, MaxNodes) :
        KeyOrder(ns) = SubSeq(FirstUse, 1, Len(KeyOrder(ns)))}

\* graph = {node.id: [] for node in nodes}
EmptyGraph(ns) == [keys |-> KeyOrder(ns), adj |-> [k \in Range(ns) |-> <<>>]]

\* Variant of AddEdges: both ends of an edge are looked up, so that an edge
\* with an undeclared target raises KeyError as well.
RECURSIVE AddEdges_Strict(_, _)
AddEdges_Strict(g, es) ==
    IF es = <<>> THEN [ok |-> TRUE, graph |-> g, key |-> ""]
    ELSE LET e == Head(es)
         IN  IF e.source \notin DOMAIN g.adj
             THEN [ok |-> FALSE, graph |-> g, key |-> e.source]
             ELSE IF e.target \notin DOMAIN g.adj
             THEN [ok |-> FALSE, graph |-> g, key |-> e.target]
             ELSE AddEdges_Strict(
                      [g EXCEPT !.adj[e.source] = Append(@, e.target)],
                      Tail(es))

\* Variant of AddEdges: graph.setdefault(edge.source, []).append(...), a
\* missing source becomes a new key instead of raising KeyError.
RECURSIVE AddEdges_SetDefault(_, _)
AddEdges_SetDefault(g, es) ==
    IF es = <<>> THEN [ok |-> TRUE, graph |-> g, key |-> ""]
    ELSE LET e == Head(es)
         IN  IF e.source \notin DOMAIN g.adj
             THEN AddEdges_SetDefault(
                      [keys |-> Append(g.keys, e.source),
                       adj  |-> [k \in DOMAIN g.adj \cup {e.source} |->
                                   IF k = e.source THEN <<e.target>>
                                   ELSE g.adj[k]]],
                      Tail(es))
             ELSE AddEdges_SetDefault(
                      [g EXCEPT !.adj[e.source] = Append(@, e.target)],
                      Tail(es))

\* for edge in edges: graph[edge.source].append(edge.target)
\* graph[edge.source] raises KeyError(edge.source) on the first edge whose
\* source is no key.
RECURSIVE AddEdges(_, _)
AddEdges(g, es) ==
    IF es = <<>> THEN [ok |-> TRUE, graph |-> g, key |-> ""]
    ELSE LET e == Head(es)
         IN  IF e.source \notin DOMAIN g.adj
             THEN [ok |-> FALSE, graph |-> g, key |-> e.source]
             ELSE AddEdges([g EXCEPT !.adj[e.source] = Append(@, e.target)],
                           Tail(es))

\* graph.get(v, [])
Neighbors(g, v) == IF v \in DOMAIN g.adj THEN g.adj[v] ELSE <<>>

\* Variant of NeighborCase: every visited neighbor counts as a back edge
\* (rec_stack is not consulted).
NeighborCase_NoStack(w, vis, rs) ==
    IF w \notin vis THEN "recurse" ELSE "cycle"

\* The branch taken for one neighbor in the loop of is_cyclic.
NeighborCase(w, vis, rs) ==
    IF w \notin vis THEN "recurse"
    ELSE IF w \in rs THEN "cycle"
    ELSE "skip"

EmptyData == [k \in {} |-> 0]
NoResponse == [pending |-> TRUE]

\* Variant of SuccessResponse: num_nodes is len(graph), the distinct ids.
SuccessResponse_DistinctNodes(ns, es, dag) ==
    [success |-> TRUE,
     message |-> "Pipeline parsed successfully.",
     data    |-> [num_nodes |-> Len(KeyOrder(ns)), num_edges |-> Len(es),
                  is_dag |-> dag]]

\* build_response(success=True, ...) and build_response(success=False, ...)
SuccessResponse(ns, es, dag) ==
    [success |-> TRUE,
     message |-> "Pipeline parsed successfully.",
     data    |-> [num_nodes |-> Len(ns), num_edges |-> Len(es), is_dag |-> dag]]

FailureResponse(key) ==
    [success |-> FALSE,
     message |-> "Error while parsing pipeline: '" \o key \o "'",
     data    |-> EmptyData]

----------------------------------------------------------------------------
\* The handler as a state machine

\* The shape of the handler's state.
TypeOK ==
    /\ nodes \in Seq(Ids)
    /\ edges \in Seq(Edge)
    /\ pc \in {"start", "scan", "call", "unwind", "respond", "done"}
    /\ Range(graph.keys) = DOMAIN graph.adj
    /\ \A k \in DOMAIN graph.adj : graph.adj[k] \in Seq(Ids)
    /\ visited \subseteq Ids
    /\ rec_stack \subseteq Ids
    /\ node_idx \in 1..(Len(graph.keys) + 1)
    /\ \A k \in 1..Len(frames) :
          /\ frames[k].v \in Ids
          /\ frames[k].i \in 1..(Len(Neighbors(graph, frames[k].v)) + 1)
    /\ is_dag \in BOOLEAN
    /\ pc = "done" <=> response # NoResponse
    /\ steps \in Nat

Init ==
    /\ nodes \in NodeLists
    /\ edges \in BoundedSeq(Edge, MaxEdges)
    /\ pc = "start"
    /\ graph = EmptyGraph(<<>>)
    /\ visited = {}
    /\ rec_stack = {}
    /\ node_idx = 1
    /\ frames = <<>>
    /\ is_dag = TRUE
    /\ response = NoResponse
    /\ steps = 0

\* Lines 77-79: the adjacency dict of the request, or the KeyError.
Built == AddEdges(EmptyGraph(nodes), edges)

\* Lines 77-97: the graph is built and the scan is set up (visited,
\* rec_stack, is_dag), or the KeyError of line 79 is caught at line 115 and
\* the failure envelope returned.
BuildGraph ==
    /\ pc = "start"
    /\ steps' = steps + 1
    /\ graph' = IF Built.ok THEN Built.graph ELSE graph
    /\ pc' = IF Built.ok THEN "scan" ELSE "done"
    /\ response' = IF Built.ok THEN response ELSE FailureResponse(Built.key)
    /\ visited' = {}
    /\ rec_stack' = {}
    /\ is_dag' = TRUE
    /\ node_idx' = 1
    /\ UNCHANGED <<nodes, edges, frames>>

\* Variant of Enter: rec_stack.add(v) is missing.
Enter_NoRecStack(v) ==
    /\ visited' = visited \cup {v}
    /\ rec_stack' = rec_stack
    /\ frames' = Append(frames, [v |-> v, i |-> 1])

\* Entry of is_cyclic(v): visited.add(v); rec_stack.add(v); a new frame.
Enter(v) ==
    /\ visited' = visited \cup {v}
    /\ rec_stack' = rec_stack \cup {v}
    /\ frames' = Append(frames, [v |-> v, i |-> 1])

\* for node_id in graph: node_id already visited.
LoopSkip ==
    /\ pc = "scan"
    /\ steps' = steps + 1
    /\ node_idx <= Len(graph.keys)
    /\ graph.keys[node_idx] \in visited
    /\ node_idx' = node_idx + 1
    /\ UNCHANGED <<nodes, edges, pc, graph, visited, rec_stack, frames,
                   is_dag, response>>

\* for node_id in graph: node_id not visited, is_cyclic(node_id) is called.
LoopCall ==
    /\ pc = "scan"
    /\ steps' = steps + 1
    /\ node_idx <= Len(graph.keys)
    /\ graph.keys[node_idx] \notin visited
    /\ Enter(graph.keys[node_idx])
    /\ pc' = "call"
    /\ UNCHANGED <<nodes, edges, graph, node_idx, is_dag, response>>

\* The for loop over graph is exhausted.
LoopEnd ==
    /\ pc = "scan"
    /\ steps' = steps + 1
    /\ node_idx > Len(graph.keys)
    /\ pc' = "respond"
    /\ UNCHANGED <<nodes, edges, graph, visited, rec_stack, node_idx, frames,
                   is_dag, response>>

Top == frames[Len(frames)]
TopNeighbors == Neighbors(graph, Top.v)
Pop == SubSeq(frames, 1, Len(frames) - 1)

\* neighbor not in visited: is_cyclic(neighbor) is called.
Recurse ==
    /\ pc = "call"
    /\ steps' = steps + 1
    /\ Top.i <= Len(TopNeighbors)
    /\ NeighborCase(TopNeighbors[Top.i], visited, rec_stack) = "recurse"
    /\ Enter(TopNeighbors[Top.i])
    /\ UNCHANGED <<nodes, edges, pc, graph, node_idx, is_dag, response>>

\* Variant of Skip: the loop does not move on to the next neighbor.
Skip_NoAdvance ==
    /\ pc = "call"
    /\ steps' = steps + 1
    /\ Top.i <= Len(TopNeighbors)
    /\ NeighborCase(TopNeighbors[Top.i], visited, rec_stack) = "skip"
    /\ UNCHANGED <<nodes, edges, pc, graph, visited, rec_stack, node_idx,
                   frames, is_dag, response>>

\* neighbor visited and not in rec_stack: next neighbor.
Skip ==
    /\ pc = "call"
    /\ steps' = steps + 1
    /\ Top.i <= Len(TopNeighbors)
    /\ NeighborCase(TopNeighbors[Top.i], visited, rec_stack) = "skip"
    /\ frames' = [frames EXCEPT ![Len(frames)].i = @ + 1]
    /\ UNCHANGED <<nodes, edges, pc, graph, visited, rec_stack, node_idx,
                   is_dag, response>>

\* neighbor visited and in rec_stack: return True.
BackEdge ==
    /\ pc = "call"
    /\ steps' = steps + 1
    /\ Top.i <= Len(TopNeighbors)
    /\ NeighborCase(TopNeighbors[Top.i], visited, rec_stack) = "cycle"
    /\ frames' = Pop
    /\ pc' = "unwind"
    /\ UNCHANGED <<nodes, edges, graph, visited, rec_stack, node_idx,
                   is_dag, response>>

\* Variant of ReturnFalse: rec_stack.remove(v) is missing.
ReturnFalse_NoRemove ==
    /\ pc = "call"
    /\ steps' = steps + 1
    /\ Top.i > Len(TopNeighbors)
    /\ rec_stack' = rec_stack
    /\ IF Len(frames) = 1
       THEN /\ frames' = <<>>
            /\ pc' = "scan"
            /\ node_idx' = node_idx + 1
       ELSE /\ frames' = [Pop EXCEPT ![Len(frames) - 1].i = @ + 1]
            /\ pc' = "call"
            /\ node_idx' = node_idx
    /\ UNCHANGED <<nodes, edges, graph, visited, is_dag, response>>

\* Neighbors exhausted: rec_stack.remove(v); return False.  The caller goes
\* on with its next neighbor, the top-level loop with its next key.
ReturnFalse ==
    /\ pc = "call"
    /\ steps' = steps + 1
    /\ Top.i > Len(TopNeighbors)
    /\ rec_stack' = rec_stack \ {Top.v}
    /\ IF Len(frames) = 1
       THEN /\ frames' = <<>>
            /\ pc' = "scan"
            /\ node_idx' = node_idx + 1
       ELSE /\ frames' = [Pop EXCEPT ![Len(frames) - 1].i = @ + 1]
            /\ pc' = "call"
            /\ node_idx' = node_idx
    /\ UNCHANGED <<nodes, edges, graph, visited, is_dag, response>>

\* Variant of ReturnTrue: the enclosing call drops the result of
\* is_cyclic(neighbor) and goes on with its next neighbor.
ReturnTrue_Continue ==
    /\ pc = "unwind"
    /\ steps' = steps + 1
    /\ frames # <<>>
    /\ frames' = [frames EXCEPT ![Len(frames)].i = @ + 1]
    /\ pc' = "call"
    /\ UNCHANGED <<nodes, edges, graph, visited, rec_stack, node_idx,
                   is_dag, response>>

\* if is_cyclic(neighbor): return True, in an enclosing call.
ReturnTrue ==
    /\ pc = "unwind"
    /\ steps' = steps + 1
    /\ frames # <<>>
    /\ frames' = Pop
    /\ UNCHANGED <<nodes, edges, pc, graph, visited, rec_stack, node_idx,
                   is_dag, response>>

\* if is_cyclic(node_id): is_dag = False; break
Break ==
    /\ pc = "unwind"
    /\ steps' = steps + 1
    /\ frames = <<>>
    /\ is_dag' = FALSE
    /\ pc' = "respond"
    /\ UNCHANGED <<nodes, edges, graph, visited, rec_stack, node_idx, frames,
                   response>>

\* return build_response(success=True, ...)
Respond ==
    /\ pc = "respond"
    /\ steps' = steps + 1
    /\ response' = SuccessResponse(nodes, edges, is_dag)
    /\ pc' = "done"
    /\ UNCHANGED <<nodes, edges, graph, visited, rec_stack, node_idx, frames,
                   is_dag>>

Next ==
    \/ BuildGraph
    \/ LoopSkip
    \/ LoopCall
    \/ LoopEnd
    \/ Recurse
    \/ Skip
    \/ BackEdge
    \/ ReturnFalse
    \/ ReturnTrue
    \/ Break
    \/ Respond

Spec == Init /\ [][Next]_vars

\* The handler is straight-line synchronous code: once invoked it runs on.
FairSpec == Spec /\ WF_vars(Next)

----------------------------------------------------------------------------
\* The handler as a function of the request

RECURSIVE is_cyclic(_, _, _, _)
RECURSIVE for_neighbors(_, _, _, _, _)

\* Variant of for_neighbors: `return is_cyclic(neighbor)`, the result of the
\* first unvisited neighbor is returned whatever it is.
for_neighbors_ReturnFirst(g, v, i, vis, rs) ==
    IF i > Len(Neighbors(g, v))
    THEN [ret |-> FALSE, visited |-> vis, rec_stack |-> rs \ {v}]
    ELSE LET w == Neighbors(g, v)[i]
             c == NeighborCase(w, vis, rs)
         IN  IF c = "recurse"
             THEN is_cyclic(g, w, vis, rs)
             ELSE IF c = "cycle"
             THEN [ret |-> TRUE, visited |-> vis, rec_stack |-> rs]
             ELSE for_neighbors(g, v, i + 1, vis, rs)

\* The loop `for neighbor in graph.get(v, [])` from position i on.
for_neighbors(g, v, i, vis, rs) ==
    IF i > Len(Neighbors(g, v))
    THEN [ret |-> FALSE, visited |-> vis, rec_stack |-> rs \ {v}]
    ELSE LET w == Neighbors(g, v)[i]
             c == NeighborCase(w, vis, rs)
         IN  IF c = "recurse"
             THEN LET r == is_cyclic(g, w, vis, rs)
                  IN  IF r.ret THEN r
                      ELSE for_neighbors(g, v, i + 1, r.visited, r.rec_stack)
             ELSE IF c = "cycle"
             THEN [ret |-> TRUE, visited |-> vis, rec_stack |-> rs]
             ELSE for_neighbors(g, v, i + 1, vis, rs)

is_cyclic(g, v, vis, rs) ==
    for_neighbors(g, v, 1, vis \cup {v}, rs \cup {v})

\* is_dag = True; for node_id in graph: ... from position k on.
RECURSIVE for_nodes(_, _, _, _)
for_nodes(g, k, vis, rs) ==
    IF k > Len(g.keys) THEN TRUE
    ELSE IF g.keys[k] \in vis THEN for_nodes(g, k + 1, vis, rs)
    ELSE LET r == is_cyclic(g, g.keys[k], vis, rs)
         IN  IF r.ret THEN FALSE
             ELSE for_nodes(g, k + 1, r.visited, r.rec_stack)

parse_pipeline(ns, es) ==
    LET b == AddEdges(EmptyGraph(ns), es)
    IN  IF b.ok
        THEN SuccessResponse(ns, es, for_nodes(b.graph, 1, {}, {}))
        ELSE FailureResponse(b.key)

\* The stepwise run and the function agree on every request.
RunMatchesFunction ==
    pc = "done" => response = parse_pipeline(nodes, edges)

----------------------------------------------------------------------------
\* Vocabulary of the properties

Declared == Range(nodes)

\* Every edge's source is a declared node id.
SourcesDeclared == \A i \in 1..Len(edges) : edges[i].source \in Declared

Finished == pc = "done"
Succeeded == Finished /\ response.success
Verdict == response.data.is_dag

EdgePairs(es) == {<<es[i].source, es[i].target>> : i \in 1..Len(es)}

\* Pairs joined by a directed path of at least one and at most n+1 edges of E.
RECURSIVE Paths(_, _)
Paths(E, n) ==
    IF n = 0 THEN E
    ELSE LET P == Paths(E, n - 1)
         IN  P \cup {r \in Ids \X Ids :
                         \E m \in Ids : <<r[1], m>> \in P /\ <<m, r[2]>> \in E}

\* The edge list contains a directed cycle (a self-loop is one).
HasDirectedCycle(es) ==
    \E v \in Ids : <<v, v>> \in Paths(EdgePairs(es), Cardinality(Ids))

\* The permutations of 1..n, for every length n an edge list may have.
Permutations ==
    [n \in 0..MaxEdges |->
        {h \in [1..n -> 1..n] : \A i, j \in 1..n : h[i] = h[j] => i = j}]

\* An edge list rearranged by a permutation of its positions.
Shuffle(es, h) == [i \in 1..Len(es) |-> es[h[i]]]

\* The edge list without the edges whose target is undeclared.
DeclaredTargetsOnly(ns, es) == SelectSeq(es, LAMBDA e : e.target \in Range(ns))

FrameNodes == {frames[k].v : k \in 1..Len(frames)}

\* A cycle has been reported: a True is travelling up, or has arrived.
CycleReported == pc = "unwind" \/ is_dag = FALSE

----------------------------------------------------------------------------
\* Properties of the response

C2_UndeclaredSourceFails ==
    ~SourcesDeclared =>
        /\ pc \in {"start", "done"}
        /\ visited = {} /\ rec_stack = {} /\ frames = <<>>
        /\ Finished =>
              /\ response.success = FALSE
              /\ response.message # ""
              /\ DOMAIN response.data = {}

\* C2 witness: the offending edge is the last of three and the other two
\* already form a cycle.
C2_Witness ==
    /\ Finished
    /\ Len(edges) = 3
    /\ edges[3].source \notin Declared
    /\ HasDirectedCycle(SubSeq(edges, 1, 2))
    /\ \A i \in 1..2 : edges[i].source \in Declared
    /\ response.success = FALSE

Scenario5 ==
    /\ nodes = <<"A", "B">>
    /\ edges = <<[source |-> "A", target |-> "X"]>>

\* C3 as stated: nodes [A, B] with the single edge (A, X), X undeclared,
\* gives the failure response.
C3_Original ==
    (Finished /\ Scenario5) => response.success = FALSE

\* C3 as amended: nodes [A, B] with the single edge (A, X), X undeclared,
\* gives a success response with num_nodes 2, num_edges 1 and is_dag true.
C3_Scenario5Succeeds ==
    (Finished /\ Scenario5) =>
        /\ response.success
        /\ response.data = [num_nodes |-> 2, num_edges |-> 1, is_dag |-> TRUE]

\* C3 witness: the request of scenario 5 has been answered.
C3_Witness == Finished /\ Scenario5

C5_CountsAreLengths ==
    Succeeded =>
        /\ response.data.num_nodes = Len(nodes)
        /\ response.data.num_edges = Len(edges)

\* C5 witness: a repeated node id and a repeated edge, in a request whose
\* scan stopped at a cycle.
C5_Witness ==
    /\ Succeeded
    /\ Len(nodes) > Cardinality(Declared)
    /\ Len(edges) > Cardinality(EdgePairs(edges))
    /\ Verdict = FALSE

\* The steps of one request: one to build the graph, at most one per key
\* and per edge for the two loops, one return per call, the end of the
\* top-level loop (or the break) and the response.
StepBound == 3 + 2 * Len(nodes) + 2 * Len(edges)

\* At every position after the start the handler has a step to take
\* (BuildGraph, the step at the start, has no guard but the position).
HasStep ==
    /\ pc = "scan" => ENABLED (LoopSkip \/ LoopCall \/ LoopEnd)
    /\ pc = "call" => ENABLED (Recurse \/ Skip \/ BackEdge \/ ReturnFalse)
    /\ pc = "unwind" => ENABLED (ReturnTrue \/ Break)
    /\ pc = "respond" => ENABLED Respond

EventuallyAnswered == SourcesDeclared ~> (Finished /\ response.success)

----------------------------------------------------------------------------
\* Properties of the scan

IsPrefix(s, t) == Len(s) <= Len(t) /\ s = SubSeq(t, 1, Len(s))

\* C8: a cycle is reported only by a call whose current neighbor is visited
\* and in rec_stack; once reported it stays reported; from then on the frames
\* only ever go away (no neighbor position advances, no call is added),
\* visited and the position of the top-level loop stay as they are, the
\* True arriving at the top level sets is_dag to false, and is_dag never
\* goes back to true: the response carries is_dag false.
C8_ShortCircuit ==
    /\ [][/\ (pc # "unwind" /\ pc' = "unwind") =>
                /\ pc = "call"
                /\ Top.i <= Len(TopNeighbors)
                /\ TopNeighbors[Top.i] \in visited \cap rec_stack
                /\ frames' = Pop
          /\ CycleReported =>
                /\ CycleReported'
                /\ IsPrefix(frames', frames)
                /\ visited' = visited
                /\ node_idx' = node_idx
                /\ (pc = "unwind" /\ pc' # "unwind") =>
                      (frames = <<>> /\ is_dag' = FALSE /\ pc' = "respond")
                /\ is_dag = FALSE => is_dag' = FALSE]_vars
    /\ [](Finished /\ CycleReported => response.success /\ Verdict = FALSE)

\* C8 witness: a True is travelling up through an enclosing call while a
\* declared node is still unvisited and the enclosing call has a neighbor
\* left to examine.
C8_Witness ==
    /\ pc = "unwind"
    /\ frames # <<>>
    /\ Top.i < Len(TopNeighbors)
    /\ \E n \in Declared : n \notin visited

\* C9 as stated: an undeclared id is never in visited nor in rec_stack, and
\* no is_cyclic call is ever active on it.
C9_Original ==
    \A u \in Ids \ Declared :
        u \notin visited /\ u \notin rec_stack /\ u \notin FrameNodes

\* C9 as amended: the top-level loop never invokes is_cyclic on an
\* undeclared id; such an id is visited only as a neighbor of a declared
\* node, as a leaf: its call is the innermost one, has no neighbor to
\* examine, and the id is in rec_stack exactly while that call is active.
C9_UndeclaredIsLeaf ==
    \A u \in Ids \ Declared :
        /\ frames # <<>> => frames[1].v # u
        /\ \A k \in 1..Len(frames) :
              frames[k].v = u =>
                  /\ k = Len(frames)
                  /\ k > 1
                  /\ pc = "call"
                  /\ Neighbors(graph, u) = <<>>
        /\ u \in rec_stack <=> u \in FrameNodes
        /\ u \in visited =>
              \E i \in 1..Len(edges) :
                  edges[i].target = u /\ edges[i].source \in visited

\* C9 witness: the scan is over and an undeclared id is in visited.
C9_Witness ==
    /\ Succeeded
    /\ \E u \in Ids \ Declared : u \in visited /\ u \notin rec_stack

\* No cycle has been reported so far.
NoCycleYet == pc \in {"scan", "call", "respond", "done"} /\ is_dag = TRUE

\* C10: while no cycle has been reported, rec_stack is the set of nodes of
\* the active calls (each node once) and lies within visited; it is empty
\* whenever the top-level loop is at a node and when the handler ends with
\* is_dag true; a node leaves rec_stack only by the return False of its own
\* call, and no node ever leaves visited.
C10_RecStackIsPath ==
    /\ [](NoCycleYet =>
            /\ rec_stack = FrameNodes
            /\ Cardinality(rec_stack) = Len(frames)
            /\ rec_stack \subseteq visited
            /\ pc = "scan" => rec_stack = {}
            /\ Succeeded /\ Verdict = TRUE => rec_stack = {})
    /\ [][/\ visited \subseteq visited'
          /\ \A v \in rec_stack \ rec_stack' :
                /\ pc = "call"
                /\ Top.v = v
                /\ Top.i > Len(TopNeighbors)
                /\ frames' = IF Len(frames) = 1 THEN <<>>
                             ELSE [Pop EXCEPT ![Len(frames) - 1].i = @ + 1]
                /\ rec_stack' = rec_stack \ {v}]_vars

\* C10 witness: two calls are active and a third node has already returned.
C10_Witness ==
    /\ NoCycleYet
    /\ pc = "call"
    /\ Len(frames) = 2
    /\ Cardinality(visited) = 3
    /\ Cardinality(rec_stack) = 2

====
